---- MODULE Spec2Model ----
(***************************************************************************)
(* Model of the calibration quiz of src/app.py: the numeric input parser   *)
(* (parse_number), the per-run session driven by the /question/<index> and *)
(* /results handlers, and the cumulative statistics file stats.json.       *)
(*                                                                         *)
(* Strings are sequences of one-character strings.  A float is modelled as *)
(* an exact decimal [m |-> mantissa, e |-> exponent] (value m * 10^e, m    *)
(* without trailing zeros), so binary rounding of IEEE doubles is outside  *)
(* the model.                                                              *)
(*                                                                         *)
(* The catalog is a list of NumQuestions questions whose true values lie   *)
(* on and between the bounds the sessions submit.  Each request is one     *)
(* step, except in SpecConc, where the load, the update and the save of a  *)
(* /results request are steps of their own.  The session keeps answers    *)
(* and stats_saved; its unit_system preference, which no handler reads     *)
(* back into a decision, is left out.                                      *)
(* current_index and in_order are history variables: the code keeps no     *)
(* position, they record the one the accepted submissions have reached.    *)
(***************************************************************************)
EXTENDS Integers, Sequences, FiniteSets, TLC

VARIABLES
    value,          \* parser harness: the raw string handed to parse_number
    result,         \* parser harness: what parse_number returned for it
    answers,        \* session["answers"]: question id -> Interval, per session
    stats_saved,    \* session["stats_saved"], per session
    store,          \* contents of the file STATS_PATH (stats.json)
    req,            \* the last request handled
    resp,           \* the response to it
    current_index,  \* history: accepted submissions since the last start()
    in_order,       \* history: every accepted submission since the last
                    \* start() was made at index = current_index
    inflight        \* the /results request a session has in progress, when
                    \* its load, modify and save are separate steps

vars == <<value, result, answers, stats_saved, store, req, resp, current_index, in_order, inflight>>

-----------------------------------------------------------------------------
(* Bounds *)

\* longest raw string the parser harness draws
MaxLen == 5

\* length of the question catalog the sessions run against
NumQuestions == 2

\* commits are not taken once the stored total_runs has reached this
MaxRuns == 2

\* largest catalog size the score and its interpretation are computed for
MaxCatalog == 20

-----------------------------------------------------------------------------
(* Characters and small string helpers *)

Digits == {"0", "1", "2", "3", "4", "5", "6", "7", "8", "9"}

\* what str.strip() and the regex class \s remove
Whitespace == {" ", "\t"}

SuffixLetters == {"k", "K", "m", "M", "b", "B", "t", "T"}

DigitVal(c) ==
    CASE c = "0" -> 0 [] c = "1" -> 1 [] c = "2" -> 2 [] c = "3" -> 3
      [] c = "4" -> 4 [] c = "5" -> 5 [] c = "6" -> 6 [] c = "7" -> 7
      [] c = "8" -> 8 [] c = "9" -> 9

Last(s) == s[Len(s)]

Front(s) == SubSeq(s, 1, Len(s) - 1)

RECURSIVE LStrip(_)
LStrip(s) == IF s # <<>> /\ Head(s) \in Whitespace THEN LStrip(Tail(s)) ELSE s

RECURSIVE RStrip(_)
RStrip(s) == IF s # <<>> /\ Last(s) \in Whitespace THEN RStrip(Front(s)) ELSE s

\* str.strip()
Strip(s) == RStrip(LStrip(s))

\* str.replace(c, "")
Remove(s, c) == SelectSeq(s, LAMBDA x : x # c)

\* str.count(c)
Count(s, c) == Len(SelectSeq(s, LAMBDA x : x = c))

StartsWith(s, c) == s # <<>> /\ Head(s) = c

EndsWith(s, c) == s # <<>> /\ Last(s) = c

\* "cc" in s
HasDouble(s, c) == \E i \in 1..(Len(s) - 1) : s[i] = c /\ s[i + 1] = c

\* s.split(c): the pieces between the occurrences of c
RECURSIVE Split(_, _)
Split(s, c) ==
    IF \A i \in 1..Len(s) : s[i] # c
    THEN <<s>>
    ELSE LET p == CHOOSE i \in 1..Len(s) : s[i] = c /\ \A j \in 1..(i - 1) : s[j] # c
         IN  <<SubSeq(s, 1, p - 1)>> \o Split(SubSeq(s, p + 1, Len(s)), c)

AllDigits(s) == \A i \in 1..Len(s) : s[i] \in Digits

-----------------------------------------------------------------------------
(* Decimal numbers *)

None == [none |-> TRUE]

RECURSIVE Pow10(_)
Pow10(n) == IF n = 0 THEN 1 ELSE 10 * Pow10(n - 1)

RECURSIVE NumDigits(_)
NumDigits(n) == IF n < 10 THEN 1 ELSE 1 + NumDigits(n \div 10)

\* canonical form: no trailing zeros in the mantissa, zero is [m |-> 0, e |-> 0]
RECURSIVE Norm(_, _)
Norm(m, e) ==
    IF m = 0 THEN [m |-> 0, e |-> 0]
    ELSE IF m % 10 = 0 THEN Norm(m \div 10, e + 1)
    ELSE [m |-> m, e |-> e]

\* value of a digit string read as a decimal integer
RECURSIVE DigitsToInt(_)
DigitsToInt(s) == IF s = <<>> THEN 0 ELSE 10 * DigitsToInt(Front(s)) + DigitVal(Last(s))

\* a < b for positive mantissas: compare the position of the leading digit,
\* then the digits themselves
PosLess(a, b) ==
    LET da == NumDigits(a.m)
        db == NumDigits(b.m)
    IN  IF da + a.e # db + b.e THEN da + a.e < db + b.e
        ELSE IF da >= db THEN a.m < b.m * Pow10(da - db)
        ELSE a.m * Pow10(db - da) < b.m

\* a < b on floats
Less(a, b) ==
    IF a.m < 0 /\ b.m < 0 THEN PosLess([m |-> -b.m, e |-> b.e], [m |-> -a.m, e |-> a.e])
    ELSE IF a.m <= 0 \/ b.m <= 0 THEN a.m < b.m
    ELSE PosLess(a, b)

LessEq(a, b) == a = b \/ Less(a, b)

\* float * 10^k
Scale(v, k) == IF v.m = 0 THEN v ELSE [m |-> v.m, e |-> v.e + k]

-----------------------------------------------------------------------------
(* parse_number *)

\* float(text) for a text made of an optional sign, digits and at most one
\* '.' with at least one digit
ToFloat(text) ==
    LET neg    == StartsWith(text, "-")
        signed == StartsWith(text, "-") \/ StartsWith(text, "+")
        w      == IF signed THEN Tail(text) ELSE text
        parts  == Split(w, ".")
        frac   == IF Len(parts) > 1 THEN parts[2] ELSE <<>>
        mant   == DigitsToInt(parts[1] \o frac)
    IN  Norm(IF neg THEN -mant ELSE mant, -Len(frac))

\* group 1 of _SHORTHAND_RE, [+-]?\d*\.?\d+ : an optional sign, then digits
\* with at most one '.', ending in a digit
IsNumBody(body) ==
    LET w == IF StartsWith(body, "-") \/ StartsWith(body, "+") THEN Tail(body) ELSE body
    IN  /\ w # <<>>
        /\ \A i \in 1..Len(w) : w[i] \in Digits \cup {"."}
        /\ Count(w, ".") <= 1
        /\ Last(w) \in Digits

\* _SHORTHAND_RE.fullmatch(t): ^\s*(group 1)\s*([kKmMbBtT])?\s*$ .
\* Group 1 holds no letter and no whitespace, so a final suffix letter is
\* group 2 and the rest, stripped, is group 1.
ShorthandMatch(t) ==
    LET u         == Strip(t)
        hasSuffix == u # <<>> /\ Last(u) \in SuffixLetters
        body      == IF hasSuffix THEN RStrip(Front(u)) ELSE u
    IN  [matched |-> IsNumBody(body),
         num     |-> body,
         suffix  |-> IF hasSuffix THEN Last(u) ELSE ""]

\* Multiplier without the .upper(): a lower-case letter finds no multiplier
Multiplier_CaseSensitive(suffix) ==
    CASE suffix = "K" -> 3
      [] suffix = "M" -> 6
      [] suffix = "B" -> 9
      [] suffix = "T" -> 12
      [] OTHER -> 0

\* multipliers.get(suffix.upper(), 1.0), as a power of ten
Multiplier(suffix) ==
    CASE suffix \in {"k", "K"} -> 3
      [] suffix \in {"m", "M"} -> 6
      [] suffix \in {"b", "B"} -> 9
      [] suffix \in {"t", "T"} -> 12
      [] OTHER -> 0

\* re.fullmatch(r"\d{1,3}(,\d{3})*", int_part)
GroupedOK(int_part) ==
    LET g == Split(int_part, ",")
    IN  /\ Len(g[1]) \in 1..3
        /\ \A i \in 1..Len(g) : AllDigits(g[i])
        /\ \A i \in 2..Len(g) : Len(g[i]) = 3

\* float(clean) for a text of digits and at most one '.': ValueError (None)
\* when it holds no digit
FloatOrNone(clean) ==
    IF \A i \in 1..Len(clean) : clean[i] \notin Digits THEN None ELSE ToFloat(clean)

\* the comma/decimal validation that follows the shorthand branch
ValidateGrouped(s) ==
    IF s = <<>> \/ \E i \in 1..Len(s) : s[i] \notin Digits \cup {",", "."} THEN None
    ELSE IF HasDouble(s, ",") \/ HasDouble(s, ".") THEN None
    ELSE IF StartsWith(s, ",") \/ EndsWith(s, ",") THEN None
    ELSE IF Count(s, ".") > 1 THEN None
    ELSE LET int_part == Split(s, ".")[1]
         IN  IF Count(int_part, ",") > 0 /\ ~GroupedOK(int_part) THEN None
             ELSE FloatOrNone(Remove(s, ","))

\* the shorthand branch: taken whenever the text without its commas matches
\* _SHORTHAND_RE, with or without a suffix
ShorthandValue(s) ==
    LET shorthand_match == ShorthandMatch(Remove(s, ","))
    IN  IF shorthand_match.matched
        THEN Scale(ToFloat(shorthand_match.num), Multiplier(shorthand_match.suffix))
        ELSE None

parse_number(v) ==
    LET s0 == Strip(v)
        s1 == Remove(Remove(s0, " "), "_")
        s2 == IF StartsWith(s1, ".") THEN <<"0">> \o s1 ELSE s1
        s3 == IF EndsWith(s2, ".") /\ Count(s2, ".") = 1 THEN Front(s2) ELSE s2
    IN  IF s0 = <<>> THEN None
        ELSE IF ShorthandMatch(Remove(s3, ",")).matched THEN ShorthandValue(s3)
        ELSE ValidateGrouped(s3)

-----------------------------------------------------------------------------
(* Parser harness: parse_number applied to every short string *)

Alphabet == {"0", "1", ",", ".", "K", "b", "a", "-", " "}

\* the inputs the documentation of the parser names
AcceptExamples ==
    {<<"4", "0", ",", "0", "0", "0", ",", "0", "0", "0">>, <<"4", "0", ".", "5">>,
     <<".", "5">>, <<"4", "2", ".">>, <<"1", "0", "K">>, <<"3", ".", "2", "B">>,
     <<"1", ".", "2", "T">>, <<"1", ",", "2", "0", "0">>,
     <<"3", ",", "2", "0", "0", "K">>, <<"3", "2", "0", "0", "K">>}

RejectExamples ==
    {<<>>, <<",">>, <<"1", ",", ",", "0", "0", "0">>, <<"1", ".", ".", "0">>,
     <<",", "1", "0", "0">>, <<"1", "0", "0", ",">>, <<"1", "2", ",", "3", "4">>,
     <<"a", "b", "c">>}

Inputs == UNION {[1..n -> Alphabet] : n \in 0..MaxLen} \cup AcceptExamples \cup RejectExamples

Pending == [pending |-> TRUE]

-----------------------------------------------------------------------------
(* Catalog *)

\* the true value of the question at 0-based position i; the values are
\* chosen so that the submitted bounds fall below, on and above them
TrueValueAt(i) == Norm(2 + (i % 2), 0)

\* the ids of the catalog, in catalog order
QuestionIdAt(i) ==
    <<"q1", "q2", "q3", "q4", "q5", "q6", "q7", "q8", "q9", "q10",
      "q11", "q12", "q13", "q14", "q15", "q16", "q17", "q18", "q19", "q20">>[i]

\* QUESTIONS, 1-based here: QUESTIONS[i + 1] is the question at index i
QUESTIONS == [i \in 1..NumQuestions |-> [id |-> QuestionIdAt(i), true_value |-> TrueValueAt(i - 1)]]

TOTAL_QUESTIONS == Len(QUESTIONS)

QuestionIds == {QUESTIONS[i].id : i \in 1..TOTAL_QUESTIONS}

-----------------------------------------------------------------------------
(* Dictionaries *)

EmptyDict == <<>>

\* d[k] = v
DictSet(d, k, v) == [x \in DOMAIN d \cup {k} |-> IF x = k THEN v ELSE d[x]]

\* d.setdefault(k, v)
SetDefault(d, k, v) == IF k \in DOMAIN d THEN d ELSE DictSet(d, k, v)

-----------------------------------------------------------------------------
(* Statistics file *)

\* stats.json does not exist
MissingFile == [kind |-> "missing"]

\* stats.json holds text json.load rejects with JSONDecodeError
UnparseableFile == [kind |-> "unparseable"]

\* stats.json holds the JSON value data
JsonFile(data) == [kind |-> "json", data |-> data]

\* a JSON value that is not an object (a list, a number, a string, null)
NotAnObject == [nonobject |-> TRUE]

\* the value is a dict, so it has setdefault and string keys
IsObject(v) == "nonobject" \notin DOMAIN v

\* load_stats raises AttributeError: data.setdefault on a value that is not
\* a dict, or data["per_question"].setdefault on one
load_raises(file) ==
    /\ file.kind = "json"
    /\ \/ ~IsObject(file.data)
       \/ /\ "per_question" \in DOMAIN file.data
          /\ ~IsObject(file.data["per_question"])

\* load_stats whose default entry starts at one attempt
load_stats_AttemptsOne(file) ==
    LET data0 == IF file.kind = "json" THEN file.data ELSE EmptyDict
        data1 == SetDefault(data0, "total_runs", 0)
        data2 == SetDefault(data1, "total_correct", 0)
        data3 == SetDefault(data2, "per_question", EmptyDict)
        data4 == SetDefault(data3, "history", <<>>)
        pq    == data4["per_question"]
        pq1   == [q \in DOMAIN pq \cup QuestionIds |->
                     IF q \in DOMAIN pq THEN pq[q] ELSE [attempts |-> 1, correct |-> 0]]
    IN  DictSet(data4, "per_question", pq1)

\* the value load_stats returns when it does not raise
load_stats(file) ==
    LET data0 == IF file.kind = "json" THEN file.data ELSE EmptyDict
        data1 == SetDefault(data0, "total_runs", 0)
        data2 == SetDefault(data1, "total_correct", 0)
        data3 == SetDefault(data2, "per_question", EmptyDict)
        data4 == SetDefault(data3, "history", <<>>)
        pq    == data4["per_question"]
        pq1   == [q \in DOMAIN pq \cup QuestionIds |->
                     IF q \in DOMAIN pq THEN pq[q] ELSE [attempts |-> 0, correct |-> 0]]
    IN  DictSet(data4, "per_question", pq1)

save_stats(stats) == JsonFile(stats)

-----------------------------------------------------------------------------
(* Scoring *)

\* IsCorrect with strict comparisons
IsCorrect_Strict(ans, true_value) == Less(ans.lower, true_value) /\ Less(true_value, ans.upper)

\* lower <= true_value <= upper
IsCorrect(ans, true_value) == LessEq(ans.lower, true_value) /\ LessEq(true_value, ans.upper)

\* the is_correct field of per_question_results, by question id
PerQuestionResults(ans) ==
    [q \in QuestionIds |->
        LET i == CHOOSE j \in 1..TOTAL_QUESTIONS : QUESTIONS[j].id = q
        IN  IsCorrect(ans[q], QUESTIONS[i].true_value)]

CorrectCount(ans) == Cardinality({q \in QuestionIds : PerQuestionResults(ans)[q]})

\* round((num / den) * 100, 1) in tenths of a percent; a tie goes to the even
\* tenth, as Python's round does on a tie that is exact in binary
RoundPct(num, den) ==
    LET q == (1000 * num) \div den
        r == (1000 * num) % den
    IN  IF 2 * r < den THEN q
        ELSE IF 2 * r > den THEN q + 1
        ELSE IF q % 2 = 0 THEN q ELSE q + 1

\* Interpretation whose third test is score_pct <= 95
Interpretation_MildInclusive(score_pct) ==
    IF score_pct < 600 THEN "severe overconfidence"
    ELSE IF score_pct < 800 THEN "overconfidence"
    ELSE IF score_pct <= 950 THEN "mild overconfidence"
    ELSE IF score_pct = 1000 THEN "underconfidence"
    ELSE "neutral"

\* the if/elif chain on score_pct (in tenths of a percent)
Interpretation(score_pct) ==
    IF score_pct < 600 THEN "severe overconfidence"
    ELSE IF score_pct < 800 THEN "overconfidence"
    ELSE IF score_pct < 950 THEN "mild overconfidence"
    ELSE IF score_pct = 1000 THEN "underconfidence"
    ELSE "neutral"

\* ApplyRun that forgets stats["total_runs"] += 1
ApplyRun_NoRunCount(stats, ans) ==
    LET pq  == stats["per_question"]
        pq1 == [q \in DOMAIN pq |->
                  IF q \in QuestionIds
                  THEN LET st1 == DictSet(pq[q], "attempts", pq[q].attempts + 1)
                       IN  IF PerQuestionResults(ans)[q]
                           THEN DictSet(st1, "correct", st1.correct + 1)
                           ELSE st1
                  ELSE pq[q]]
    IN  DictSet(DictSet(stats,
            "total_correct", stats["total_correct"] + CorrectCount(ans)),
            "per_question", pq1)

\* the stats["..."] += ... block of one commit
ApplyRun(stats, ans) ==
    LET pq  == stats["per_question"]
        pq1 == [q \in DOMAIN pq |->
                  IF q \in QuestionIds
                  THEN LET st1 == DictSet(pq[q], "attempts", pq[q].attempts + 1)
                       IN  IF PerQuestionResults(ans)[q]
                           THEN DictSet(st1, "correct", st1.correct + 1)
                           ELSE st1
                  ELSE pq[q]]
    IN  DictSet(DictSet(DictSet(stats,
            "total_runs", stats["total_runs"] + 1),
            "total_correct", stats["total_correct"] + CorrectCount(ans)),
            "per_question", pq1)

\* stats["per_question"][qid]["attempts"] += 1 and, for a correct answer,
\* ["correct"] += 1 raise on an entry without the field
commit_raises(stats, ans) ==
    \E q \in QuestionIds :
        LET st == stats["per_question"][q]
        IN  \/ "attempts" \notin DOMAIN st
            \/ PerQuestionResults(ans)[q] /\ "correct" \notin DOMAIN st

\* s["attempts"] > 0 and s["correct"] / s["attempts"] raise on an entry
\* without the field
view_raises(stats) ==
    \E q \in QuestionIds :
        LET st == stats["per_question"][q]
        IN  \/ "attempts" \notin DOMAIN st
            \/ st.attempts > 0 /\ "correct" \notin DOMAIN st

\* per_question_stats: correct_pct (guarded by attempts > 0) and attempts
PerQuestionStats(stats) ==
    [q \in QuestionIds |->
        LET st == stats["per_question"][q]
        IN  [correct_pct |-> IF st.attempts > 0 THEN RoundPct(st.correct, st.attempts) ELSE 0,
             attempts    |-> st.attempts]]

-----------------------------------------------------------------------------
(* Sessions and requests *)

Sessions == {"s1"}

\* the raw texts typed into the lower field
LowerInputs == {<<"2">>, <<"3">>, <<"a">>}

\* the raw texts typed into the upper field
UpperInputs == {<<"1">>, <<"3">>, <<"a">>}

\* parse_number on the texts the sessions post, as a table so that each text
\* is parsed once
ParsedInputs == [t \in {Strip(x) : x \in LowerInputs \cup UpperInputs} |-> parse_number(t)]

\* question indices requested: the catalog and one position past it
Indices == 0..TOTAL_QUESTIONS

\* a request: the session it belongs to, the route, and for /question/<index>
\* the method, the index and the posted form fields
Request(s, route, method, index, lower, upper) ==
    [sess |-> s, route |-> route, method |-> method, index |-> index,
     lower |-> lower, upper |-> upper]

NoRequest == Request("", "none", "", 0, <<>>, <<>>)

Redirect(to) == [kind |-> "redirect", to |-> to]

RedirectQuestion(index) == [kind |-> "redirect", to |-> "question", index |-> index]

\* QuestionPage that renders the fields empty
QuestionPage_Blank(index, error, lower_value, upper_value) ==
    [kind        |-> "question",
     index       |-> index,
     progress    |-> (index * 100) \div TOTAL_QUESTIONS,
     error       |-> error,
     lower_value |-> <<>>,
     upper_value |-> <<>>]

\* render_template("question.html", ...)
QuestionPage(index, error, lower_value, upper_value) ==
    [kind        |-> "question",
     index       |-> index,
     progress    |-> (index * 100) \div TOTAL_QUESTIONS,
     error       |-> error,
     lower_value |-> lower_value,
     upper_value |-> upper_value]

\* an exception leaves the handler: HTTP 500
ServerError(exc) == [kind |-> "error", exc |-> exc]

\* SessionAfterStart that forgets to clear stats_saved
SessionAfterStart_KeepsSaved(index, ans, saved) ==
    IF index = 0
    THEN [answers |-> EmptyDict, stats_saved |-> saved]
    ELSE [answers |-> ans, stats_saved |-> saved]

\* SessionAfterStart that clears the session at every index
SessionAfterStart_ClearsAlways(index, ans, saved) ==
    [answers |-> EmptyDict, stats_saved |-> FALSE]

\* if index == 0: session.clear(); answers = {}; stats_saved = False
SessionAfterStart(index, ans, saved) ==
    IF index = 0
    THEN [answers |-> EmptyDict, stats_saved |-> FALSE]
    ELSE [answers |-> ans, stats_saved |-> saved]

\* InvalidIndex that lets index = TOTAL_QUESTIONS through
InvalidIndex_OffByOne(index) == index < 0 \/ index > TOTAL_QUESTIONS

\* if index < 0 or index >= TOTAL_QUESTIONS
InvalidIndex(index) == index < 0 \/ index >= TOTAL_QUESTIONS

\* if lower is None or upper is None
FormatError(lower, upper) == lower = None \/ upper = None

\* RangeError with the comparison turned round
RangeError_Swapped(lower, upper) == Less(lower, upper)

\* if lower > upper
RangeError(lower, upper) == Less(upper, lower)

\* NextStep with <= for <
NextStep_OffByOne(index) ==
    IF index + 1 <= TOTAL_QUESTIONS THEN RedirectQuestion(index + 1) ELSE Redirect("results")

\* the redirect that ends an accepted POST
NextStep(index) ==
    IF index + 1 < TOTAL_QUESTIONS THEN RedirectQuestion(index + 1) ELSE Redirect("results")

\* /question/<index>, GET or POST, in session s
question(s, method, index, form_lower, form_upper) ==
    LET started   == SessionAfterStart(index, answers[s], stats_saved[s])
        ci0       == IF index = 0 THEN 0 ELSE current_index[s]
        io0       == IF index = 0 THEN TRUE ELSE in_order[s]
        raw_lower == Strip(form_lower)
        raw_upper == Strip(form_upper)
        lower     == ParsedInputs[raw_lower]
        upper     == ParsedInputs[raw_upper]
        rejected  == \/ InvalidIndex(index)
                     \/ index + 1 \notin DOMAIN QUESTIONS
                     \/ method = "GET"
                     \/ FormatError(lower, upper)
                     \/ RangeError(lower, upper)
    IN  /\ req' = Request(s, "question", method, index, form_lower, form_upper)
        /\ stats_saved' = [stats_saved EXCEPT ![s] = started.stats_saved]
        /\ IF rejected
           THEN /\ answers' = [answers EXCEPT ![s] = started.answers]
                /\ current_index' = [current_index EXCEPT ![s] = ci0]
                /\ in_order' = [in_order EXCEPT ![s] = io0]
                /\ resp' = IF InvalidIndex(index) THEN Redirect("results")
                           ELSE IF index + 1 \notin DOMAIN QUESTIONS
                                THEN \* QUESTIONS[index] raises outside the list
                                     ServerError("IndexError")
                           ELSE IF method = "GET" THEN QuestionPage(index, "none", <<>>, <<>>)
                           ELSE IF FormatError(lower, upper)
                                THEN QuestionPage(index, "format", raw_lower, raw_upper)
                           ELSE QuestionPage(index, "range", raw_lower, raw_upper)
           ELSE /\ answers' = [answers EXCEPT ![s] =
                        DictSet(started.answers, QUESTIONS[index + 1].id,
                                [lower |-> lower, upper |-> upper])]
                /\ current_index' = [current_index EXCEPT ![s] =
                        IF ci0 < TOTAL_QUESTIONS THEN ci0 + 1 ELSE ci0]
                /\ in_order' = [in_order EXCEPT ![s] = io0 /\ index = ci0]
                /\ resp' = NextStep(index)
        /\ UNCHANGED <<store, value, result, inflight>>

QuestionGet(s, index) == question(s, "GET", index, <<>>, <<>>)

QuestionPost(s, index, form_lower, form_upper) ==
    question(s, "POST", index, form_lower, form_upper)

\* Incomplete without the length test
Incomplete_EmptyOnly(ans) == ans = EmptyDict

\* if not answers or len(answers) != TOTAL_QUESTIONS
Incomplete(ans) == ans = EmptyDict \/ Cardinality(DOMAIN ans) # TOTAL_QUESTIONS

\* NeedsCommit without the guard
NeedsCommit_Always(saved) == TRUE

\* if not session.get("stats_saved", False)
NeedsCommit(saved) == ~saved

\* the record the averages are computed from: the loaded one, with this
\* run folded in when the session has not committed yet
StatsForView(file, ans, saved) ==
    IF NeedsCommit(saved) THEN ApplyRun(load_stats(file), ans) ELSE load_stats(file)

\* render_template("results.html", ...)
ResultsPage(ans, stats) ==
    [kind                   |-> "results",
     correct_count          |-> CorrectCount(ans),
     score_pct              |-> RoundPct(CorrectCount(ans), TOTAL_QUESTIONS),
     interpretation         |-> Interpretation(RoundPct(CorrectCount(ans), TOTAL_QUESTIONS)),
     per_question_results   |-> PerQuestionResults(ans),
     global_avg_correct_pct |-> RoundPct(stats["total_correct"],
                                         stats["total_runs"] * TOTAL_QUESTIONS),
     total_runs             |-> stats["total_runs"],
     per_question_stats     |-> PerQuestionStats(stats)]

\* no /results request of the session is being served
Idle == [pc |-> "idle"]

\* /results in session s
results(s) ==
    LET ans   == answers[s]
        stats == StatsForView(store, ans, stats_saved[s])
    IN  /\ req' = Request(s, "results", "GET", 0, <<>>, <<>>)
        /\ IF Incomplete(ans)
           THEN /\ resp' = Redirect("index")
                /\ UNCHANGED <<answers, stats_saved, store>>
           ELSE IF \E q \in QuestionIds : q \notin DOMAIN ans
           THEN \* answers.get(qid) is None and user_ans["lower"] raises
                /\ resp' = ServerError("TypeError")
                /\ UNCHANGED <<answers, stats_saved, store>>
           ELSE IF load_raises(store)
           THEN /\ resp' = ServerError("AttributeError")
                /\ UNCHANGED <<answers, stats_saved, store>>
           ELSE IF NeedsCommit(stats_saved[s]) /\ commit_raises(load_stats(store), ans)
           THEN /\ resp' = ServerError("KeyError")
                /\ UNCHANGED <<answers, stats_saved, store>>
           ELSE /\ NeedsCommit(stats_saved[s]) => load_stats(store)["total_runs"] < MaxRuns
                /\ store' = IF NeedsCommit(stats_saved[s]) THEN save_stats(stats) ELSE store
                /\ stats_saved' = IF NeedsCommit(stats_saved[s])
                                  THEN [stats_saved EXCEPT ![s] = TRUE]
                                  ELSE stats_saved
                /\ resp' = IF stats["total_runs"] * TOTAL_QUESTIONS = 0
                           THEN ServerError("ZeroDivisionError")
                           ELSE IF view_raises(stats) THEN ServerError("KeyError")
                           ELSE ResultsPage(ans, stats)
                /\ UNCHANGED answers
        /\ UNCHANGED <<current_index, in_order, value, result, inflight>>

-----------------------------------------------------------------------------
(* The requests of the sessions, one at a time, on a reliable file *)

Init ==
    /\ value = <<>>
    /\ result = Pending
    /\ answers = [s \in Sessions |-> EmptyDict]
    /\ stats_saved = [s \in Sessions |-> FALSE]
    /\ store = MissingFile
    /\ req = NoRequest
    /\ resp = [kind |-> "none"]
    /\ current_index = [s \in Sessions |-> 0]
    /\ in_order = [s \in Sessions |-> TRUE]
    /\ inflight = [s \in Sessions |-> Idle]

Next ==
    \/ \E s \in Sessions, index \in Indices : QuestionGet(s, index)
    \/ \E s \in Sessions, index \in Indices, form_lower \in LowerInputs, form_upper \in UpperInputs :
          QuestionPost(s, index, form_lower, form_upper)
    \/ \E s \in Sessions : results(s)

Spec == Init /\ [][Next]_vars

-----------------------------------------------------------------------------
(* The same, with stats.json removed or overwritten from outside, or not *)
(* writable when results saves it                                        *)

RemoveFile == store # MissingFile /\ store' = MissingFile /\ UNCHANGED <<value, result, answers, stats_saved, req, resp, current_index, in_order, inflight>>

GarbleFile == store # UnparseableFile /\ store' = UnparseableFile /\ UNCHANGED <<value, result, answers, stats_saved, req, resp, current_index, in_order, inflight>>

EmptyFile == store # JsonFile(EmptyDict) /\ store' = JsonFile(EmptyDict) /\ UNCHANGED <<value, result, answers, stats_saved, req, resp, current_index, in_order, inflight>>

\* stats.json is overwritten with JSON that is not an object, such as []
NonRecordFile == store # JsonFile(NotAnObject) /\ store' = JsonFile(NotAnObject) /\ UNCHANGED <<value, result, answers, stats_saved, req, resp, current_index, in_order, inflight>>

\* stats.json is overwritten with an object whose per_question is not an object
BadPerQuestionFile ==
    LET file == JsonFile(DictSet(EmptyDict, "per_question", NotAnObject))
    IN  store # file /\ store' = file /\ UNCHANGED <<value, result, answers, stats_saved, req, resp, current_index, in_order, inflight>>

\* stats.json is overwritten with an object whose per_question entries are
\* objects without attempts and correct
BadEntriesFile ==
    LET file == JsonFile(DictSet(EmptyDict, "per_question", [q \in QuestionIds |-> EmptyDict]))
    IN  store # file /\ store' = file /\ UNCHANGED <<value, result, answers, stats_saved, req, resp, current_index, in_order, inflight>>

\* /results in session s when save_stats raises OSError: open(STATS_PATH, "w")
\* fails and leaves the file alone, or json.dump fails after open truncated it
results_save_fails(s) ==
    LET ans == answers[s]
    IN  /\ ~Incomplete(ans)
        /\ \A q \in QuestionIds : q \in DOMAIN ans
        /\ ~load_raises(store)
        /\ NeedsCommit(stats_saved[s])
        /\ ~commit_raises(load_stats(store), ans)
        /\ req' = Request(s, "results", "GET", 0, <<>>, <<>>)
        /\ store' \in {store, UnparseableFile}
        /\ resp' = ServerError("OSError")
        /\ UNCHANGED <<answers, stats_saved, current_index, in_order, value, result, inflight>>

NextEnv ==
    \/ Next
    \/ RemoveFile
    \/ GarbleFile
    \/ EmptyFile
    \/ NonRecordFile
    \/ BadPerQuestionFile
    \/ BadEntriesFile
    \/ \E s \in Sessions : results_save_fails(s)

SpecEnv == Init /\ [][NextEnv]_vars

-----------------------------------------------------------------------------
(* The parser on its own *)

InitParse ==
    /\ value \in Inputs
    /\ result = Pending
    /\ answers = [s \in Sessions |-> EmptyDict]
    /\ stats_saved = [s \in Sessions |-> FALSE]
    /\ store = MissingFile
    /\ req = NoRequest
    /\ resp = [kind |-> "none"]
    /\ current_index = [s \in Sessions |-> 0]
    /\ in_order = [s \in Sessions |-> TRUE]
    /\ inflight = [s \in Sessions |-> Idle]

Parse == result = Pending /\ result' = parse_number(value) /\ UNCHANGED <<value, answers, stats_saved, store, req, resp, current_index, in_order, inflight>>

NextParse == Parse

SpecParse == InitParse /\ [][NextParse]_vars

-----------------------------------------------------------------------------
(* The score and its interpretation on their own, for every catalog size   *)
(* up to MaxCatalog and every number of correct answers                    *)

InitBands ==
    /\ value \in {[correct_count |-> c, total |-> n] : c \in 0..MaxCatalog, n \in 1..MaxCatalog}
    /\ value.correct_count <= value.total
    /\ result = Pending
    /\ answers = [s \in Sessions |-> EmptyDict]
    /\ stats_saved = [s \in Sessions |-> FALSE]
    /\ store = MissingFile
    /\ req = NoRequest
    /\ resp = [kind |-> "none"]
    /\ current_index = [s \in Sessions |-> 0]
    /\ in_order = [s \in Sessions |-> TRUE]
    /\ inflight = [s \in Sessions |-> Idle]

\* score_pct = round(...) and the if/elif chain that follows it
Score ==
    /\ result = Pending
    /\ result' = [score_pct      |-> RoundPct(value.correct_count, value.total),
                  interpretation |-> Interpretation(RoundPct(value.correct_count, value.total))]
    /\ UNCHANGED <<value, answers, stats_saved, store, req, resp, current_index, in_order, inflight>>

NextBands == Score

SpecBands == InitBands /\ [][NextBands]_vars

-----------------------------------------------------------------------------
(* Concurrent /results requests of sessions that have finished the quiz:   *)
(* the server runs handlers in threads and takes no lock around stats.json, *)
(* so the load, the in-memory update and the save of different requests     *)
(* interleave                                                               *)

Clients == {"s1", "s2"}

\* the Intervals a submit can store: both bounds parse and lower <= upper
ValidIntervals ==
    {[lower |-> ParsedInputs[Strip(l)], upper |-> ParsedInputs[Strip(u)]] :
        <<l, u>> \in {p \in LowerInputs \X UpperInputs :
                        /\ ~FormatError(ParsedInputs[Strip(p[1])], ParsedInputs[Strip(p[2])])
                        /\ ~RangeError(ParsedInputs[Strip(p[1])], ParsedInputs[Strip(p[2])])}}

InitConc ==
    /\ value = <<>>
    /\ result = Pending
    /\ answers \in [Clients -> [QuestionIds -> ValidIntervals]]
    /\ stats_saved = [s \in Clients |-> FALSE]
    /\ store = MissingFile
    /\ req = NoRequest
    /\ resp = [kind |-> "none"]
    /\ current_index = [s \in Clients |-> TOTAL_QUESTIONS]
    /\ in_order = [s \in Clients |-> TRUE]
    /\ inflight = [s \in Clients |-> Idle]

\* results up to and including stats = load_stats()
ResultsLoad(s) ==
    /\ inflight[s] = Idle
    /\ ~Incomplete(answers[s])
    /\ ~load_raises(store)
    /\ req' = Request(s, "results", "GET", 0, <<>>, <<>>)
    /\ inflight' = [inflight EXCEPT ![s] = [pc |-> "loaded", stats |-> load_stats(store)]]
    /\ UNCHANGED <<value, result, answers, stats_saved, store, resp, current_index, in_order>>

\* the updates of the loaded record under if not session.get("stats_saved")
ResultsModify(s) ==
    /\ inflight[s].pc = "loaded"
    /\ NeedsCommit(stats_saved[s])
    /\ inflight' = [inflight EXCEPT ![s] = [pc    |-> "modified",
                                           stats |-> ApplyRun(inflight[s].stats, answers[s])]]
    /\ UNCHANGED <<value, result, answers, stats_saved, store, req, resp, current_index, in_order>>

\* save_stats(stats), session["stats_saved"] = True and the rest of results
ResultsSave(s) ==
    /\ inflight[s].pc = "modified"
    /\ store' = save_stats(inflight[s].stats)
    /\ stats_saved' = [stats_saved EXCEPT ![s] = TRUE]
    /\ resp' = ResultsPage(answers[s], inflight[s].stats)
    /\ inflight' = [inflight EXCEPT ![s] = Idle]
    /\ UNCHANGED <<value, result, answers, req, current_index, in_order>>

\* the rest of results when the session's run is already committed
ResultsView(s) ==
    /\ inflight[s].pc = "loaded"
    /\ ~NeedsCommit(stats_saved[s])
    /\ resp' = IF inflight[s].stats["total_runs"] * TOTAL_QUESTIONS = 0
               THEN ServerError("ZeroDivisionError")
               ELSE ResultsPage(answers[s], inflight[s].stats)
    /\ inflight' = [inflight EXCEPT ![s] = Idle]
    /\ UNCHANGED <<value, result, answers, stats_saved, store, req, current_index, in_order>>

NextConc ==
    \/ \E s \in Clients : ResultsLoad(s)
    \/ \E s \in Clients : ResultsModify(s)
    \/ \E s \in Clients : ResultsSave(s)
    \/ \E s \in Clients : ResultsView(s)

SpecConc == InitConc /\ [][NextConc]_vars

-----------------------------------------------------------------------------
(* Properties of the session and the statistics file *)

TotalRuns(file) == load_stats(file)["total_runs"]

Attempts(file, q) == load_stats(file)["per_question"][q].attempts

HoldsAll(s) == Cardinality(DOMAIN answers[s]) = TOTAL_QUESTIONS

\* the step handles a /question/<index> request of session s: it leaves that
\* request in req, and it is not one of the steps that rewrite the file from
\* outside, which leave req as it was
QuestionStep(s) ==
    /\ req'.sess = s
    /\ req'.route = "question"
    /\ store' = store

\* the step handles a POST of session s at an index of the catalog
SubmitStep(s) ==
    /\ QuestionStep(s)
    /\ req'.method = "POST"
    /\ req'.index \in 0..(TOTAL_QUESTIONS - 1)

\* the step handles a /results request of session s
ResultsStep(s) ==
    /\ req'.sess = s
    /\ req'.route = "results"
    /\ results(s)

\* both texts parse and the parsed lower does not exceed the parsed upper
ValidBounds(form_lower, form_upper) ==
    LET lower == ParsedInputs[Strip(form_lower)]
        upper == ParsedInputs[Strip(form_upper)]
    IN  lower # None /\ upper # None /\ LessEq(lower, upper)

\* both texts parse and the parsed lower exceeds the parsed upper
LowerAboveUpper(form_lower, form_upper) ==
    LET lower == ParsedInputs[Strip(form_lower)]
        upper == ParsedInputs[Strip(form_upper)]
    IN  lower # None /\ upper # None /\ Less(upper, lower)

\* the ids of the first n questions of the catalog
FirstIds(n) == {QUESTIONS[i].id : i \in 1..n}

\* C1: on a session holding N answers, the results view that finds the
\* session uncommitted adds exactly 1 to total_runs and to every question's
\* attempts and sets committed; every results view that finds it committed
\* leaves the statistics file alone and committed set; and no request of a
\* question index >= 1 touches the file or the flag. So the views between
\* two start() add exactly 1 in total.
C1_IdempotentCommit ==
    [][\A s \in Sessions :
          /\ (ResultsStep(s) /\ HoldsAll(s) /\ ~stats_saved[s]) =>
                /\ TotalRuns(store') = TotalRuns(store) + 1
                /\ \A q \in QuestionIds : Attempts(store', q) = Attempts(store, q) + 1
                /\ stats_saved'[s]
          /\ (ResultsStep(s) /\ HoldsAll(s) /\ stats_saved[s]) =>
                /\ store' = store
                /\ stats_saved'[s]
          /\ (QuestionStep(s) /\ req'.index >= 1) =>
                /\ store' = store
                /\ stats_saved'[s] = stats_saved[s]]_vars

\* a committed session has viewed its results, with the run counted once
C1_Witness ==
    /\ stats_saved["s1"]
    /\ req.route = "results"
    /\ resp.kind = "results"
    /\ resp.total_runs = 1
    /\ TotalRuns(store) = 1
    /\ \A q \in QuestionIds : Attempts(store, q) = 1

\* C2: a results view on a session that holds a number of answers other than
\* N (none included) answers with a redirect to the entry point, not a score,
\* and changes neither the statistics file nor the session.
C2_PartialRunsNeverScore ==
    [][\A s \in Sessions :
          (ResultsStep(s) /\ ~HoldsAll(s)) =>
              /\ resp' = Redirect("index")
              /\ store' = store
              /\ stats_saved' = stats_saved
              /\ answers' = answers]_vars

\* results was refused on a session that holds some, but not all, answers
C2_Witness ==
    /\ req.route = "results"
    /\ resp = Redirect("index")
    /\ Cardinality(DOMAIN answers["s1"]) \in 1..(TOTAL_QUESTIONS - 1)
    /\ ~stats_saved["s1"]

\* C3: a submit with valid bounds at an index in [0, N) other than the
\* session's current_index stores nothing and does not advance the session.
\* (A submit at index 0 is preceded by start(), which puts current_index
\* at 0.)
C3_OrderedProgression ==
    [][\A s \in Sessions :
          (/\ SubmitStep(s)
           /\ ValidBounds(req'.lower, req'.upper)
           /\ req'.index # 0
           /\ req'.index # current_index[s]) =>
              /\ answers'[s] = answers[s]
              /\ current_index'[s] = current_index[s]]_vars

\* C4: after a start and accepted submits at 0, 1, ... in order, the session
\* holds exactly the answers of the questions submitted so far, one per id;
\* each of these submits redirects to the next question, the last one to the
\* results view; and the results view of the finished run shows a score.
C4_SequentialIntegrity ==
    /\ [](\A s \in Sessions : in_order[s] => DOMAIN answers[s] = FirstIds(current_index[s]))
    /\ [][\A s \in Sessions :
            /\ (SubmitStep(s) /\ ValidBounds(req'.lower, req'.upper) /\ in_order'[s]) =>
                  /\ current_index'[s] = req'.index + 1
                  /\ resp' = IF req'.index + 1 = TOTAL_QUESTIONS
                             THEN Redirect("results")
                             ELSE RedirectQuestion(req'.index + 1)
            /\ (ResultsStep(s) /\ in_order[s] /\ current_index[s] = TOTAL_QUESTIONS) =>
                  (resp'.kind = "results" /\ HoldsAll(s))]_vars

\* a run made in order has finished and been scored
C4_Witness ==
    /\ in_order["s1"]
    /\ current_index["s1"] = TOTAL_QUESTIONS
    /\ DOMAIN answers["s1"] = QuestionIds
    /\ req.route = "results"
    /\ resp.kind = "results"

\* C5: an Interval stored under a question id keeps its lower and upper
\* through every step that is not a visit of index 0.
C5_CapturedOnce ==
    [][\A s \in Sessions, q \in QuestionIds :
          (q \in DOMAIN answers[s] /\ ~(QuestionStep(s) /\ req'.index = 0)) =>
              (q \in DOMAIN answers'[s] /\ answers'[s][q] = answers[s][q])]_vars

\* C6: every stored Interval has lower <= upper, and a submit whose parsed
\* lower exceeds its parsed upper re-prompts and stores nothing, at every
\* index in [0, N).
C6_IntervalValid ==
    /\ [](\A s \in Sessions : \A q \in DOMAIN answers[s] :
            LessEq(answers[s][q].lower, answers[s][q].upper))
    /\ [][\A s \in Sessions :
            (SubmitStep(s) /\ LowerAboveUpper(req'.lower, req'.upper)) =>
                /\ answers'[s] = IF req'.index = 0 THEN EmptyDict ELSE answers[s]
                /\ resp'.kind = "question"
                /\ resp'.error = "range"]_vars

\* a submit with lower 3 and upper 1 at the last index was refused while
\* the answers given before it are held
C6_Witness ==
    /\ req.method = "POST"
    /\ req.index = TOTAL_QUESTIONS - 1
    /\ req.lower = <<"3">>
    /\ req.upper = <<"1">>
    /\ resp.kind = "question"
    /\ resp.error = "range"
    /\ DOMAIN answers["s1"] = FirstIds(TOTAL_QUESTIONS - 1)

\* C7: every visit of index 0 leaves the session uncommitted and holding no
\* answer from before the visit (an accepted POST leaves the one it stored);
\* and a results view of a complete, uncommitted session counts a new run.
C7_StartResets ==
    [][\A s \in Sessions :
          /\ (QuestionStep(s) /\ req'.index = 0) =>
                /\ ~stats_saved'[s]
                /\ answers'[s] =
                      IF req'.method = "POST" /\ ValidBounds(req'.lower, req'.upper)
                      THEN DictSet(EmptyDict, QUESTIONS[1].id,
                                   [lower |-> ParsedInputs[Strip(req'.lower)],
                                    upper |-> ParsedInputs[Strip(req'.upper)]])
                      ELSE EmptyDict
          /\ (ResultsStep(s) /\ HoldsAll(s) /\ ~stats_saved[s]) =>
                (TotalRuns(store') = TotalRuns(store) + 1 /\ stats_saved'[s])]_vars

\* the one session has been committed, restarted, completed and committed again
C7_Witness ==
    /\ TotalRuns(store) = 2
    /\ stats_saved["s1"]
    /\ req.route = "results"
    /\ resp.kind = "results"
    /\ resp.total_runs = 2

\* C10: a results view of a complete session that computes the average from
\* a record with total_runs = 0 shows the results with an average of 0.0.
C10_AverageGuarded ==
    [][\A s \in Sessions :
          (/\ ResultsStep(s)
           /\ HoldsAll(s)
           /\ StatsForView(store, answers[s], stats_saved[s])["total_runs"] = 0) =>
              (resp'.kind = "results" /\ resp'.global_avg_correct_pct = 0)]_vars

-----------------------------------------------------------------------------
(* Properties of the parser *)

Parsed == result # Pending /\ result # None

Rejected == result = None

\* digit groups separated by commas: a leading group of 1 to 3 digits, then
\* groups of exactly 3 digits
ThousandsGrouped(text) ==
    LET groups == Split(text, ",")
    IN  /\ \A i \in 1..Len(groups) : AllDigits(groups[i])
        /\ Len(groups[1]) >= 1 /\ Len(groups[1]) <= 3
        /\ \A i \in 2..Len(groups) : Len(groups[i]) = 3

\* the numeric literal of a raw text: separators, a sign and a magnitude
\* letter taken off
Literal(text) ==
    LET t0 == SelectSeq(text, LAMBDA c : c \notin {" ", "\t", "_"})
        t1 == IF t0 # <<>> /\ Last(t0) \in SuffixLetters THEN Front(t0) ELSE t0
    IN  IF t1 # <<>> /\ Head(t1) \in {"+", "-"} THEN Tail(t1) ELSE t1

\* every comma of the text stands in the integer part and the commas cut the
\* integer part into thousands groups
CommasGroupThousands(text) ==
    LET lit    == Literal(text)
        dot    == IF \E i \in 1..Len(lit) : lit[i] = "."
                  THEN CHOOSE i \in 1..Len(lit) : lit[i] = "." /\ \A j \in 1..(i - 1) : lit[j] # "."
                  ELSE Len(lit) + 1
        intTxt == SubSeq(lit, 1, dot - 1)
        rest   == SubSeq(lit, dot + 1, Len(lit))
    IN  /\ \A i \in 1..Len(rest) : rest[i] # ","
        /\ (\E i \in 1..Len(intTxt) : intTxt[i] = ",") => ThousandsGrouped(intTxt)

\* C8: parse accepts no text whose commas do not cut the integer part into
\* thousands groups, and it rejects each of "", ",", "1,,000", "1..0",
\* ",100", "100,", "12,34" and "abc".
C8_CommaGrouping ==
    /\ Parsed => CommasGroupThousands(value)
    /\ (value \in RejectExamples /\ result # Pending) => Rejected

\* the power of ten a magnitude letter stands for
SuffixPower(c) ==
    IF c \in {"K", "k"} THEN 3
    ELSE IF c \in {"M", "m"} THEN 6
    ELSE IF c \in {"B", "b"} THEN 9
    ELSE 12

\* the shape of a well-formed text: an optional sign; an integer part, plain
\* or in thousands groups, with an optional '.' and fraction digits, or a
\* leading '.' with fraction digits; an optional magnitude letter. A '.'
\* with nothing after it ends the text.
Shape(text) ==
    LET hasSuffix == text # <<>> /\ Last(text) \in SuffixLetters
        t1        == IF hasSuffix THEN Front(text) ELSE text
        negative  == t1 # <<>> /\ Head(t1) = "-"
        lit       == IF t1 # <<>> /\ Head(t1) \in {"+", "-"} THEN Tail(t1) ELSE t1
        parts     == Split(lit, ".")
        intTxt    == parts[1]
        fracTxt   == IF Len(parts) = 2 THEN parts[2] ELSE <<>>
    IN  [ok       |-> /\ Len(parts) <= 2
                      /\ AllDigits(fracTxt)
                      /\ IF intTxt = <<>>
                         THEN fracTxt # <<>>
                         ELSE AllDigits(intTxt) \/ ThousandsGrouped(intTxt)
                      /\ (Len(parts) = 2 /\ fracTxt = <<>>) => ~hasSuffix,
         negative |-> negative,
         digits   |-> SelectSeq(intTxt, LAMBDA c : c # ",") \o fracTxt,
         places   |-> Len(fracTxt),
         power    |-> IF hasSuffix THEN SuffixPower(Last(text)) ELSE 0]

WellFormed(text) == Shape(text).ok

\* the number a well-formed text denotes
Denotes(text) ==
    LET sh == Shape(text)
        n  == DigitsToInt(sh.digits)
    IN  Norm(IF sh.negative THEN -n ELSE n, sh.power - sh.places)

-----------------------------------------------------------------------------
(* Properties of load_stats and save_stats on an unreliable file *)

\* the record has integer total_runs and total_correct and, for every
\* catalog id, an entry with integer attempts and correct
UsableCounts(stats) ==
    /\ {"total_runs", "total_correct", "per_question"} \subseteq DOMAIN stats
    /\ stats["total_runs"] \in Nat
    /\ stats["total_correct"] \in Nat
    /\ \A q \in QuestionIds :
          /\ q \in DOMAIN stats["per_question"]
          /\ {"attempts", "correct"} \subseteq DOMAIN stats["per_question"][q]

\* C11: whatever stats.json holds (nothing, unparseable text, JSON that is
\* not an object, an object whose per_question or whose per-question entries
\* are malformed), load_stats does not raise and returns a record whose
\* total_runs, total_correct and per-question counts are integers.
C11_LoadNeverFails == ~load_raises(store) /\ UsableCounts(load_stats(store))

\* the results request of session s in which save_stats raised
SaveFailsStep(s) == req'.sess = s /\ req'.route = "results" /\ results_save_fails(s)

\* C12: when save_stats fails during the commit of a results view of a
\* complete session, the response is still the results page with that run's
\* per-question correctness and score.
C12_SaveFailureShowsResults ==
    [][\A s \in Sessions :
          SaveFailsStep(s) =>
              /\ resp'.kind = "results"
              /\ resp'.per_question_results = PerQuestionResults(answers[s])
              /\ resp'.correct_count = CorrectCount(answers[s])]_vars

-----------------------------------------------------------------------------
(* Properties of concurrent commits *)

RECURSIVE SumOver(_, _)
\* the sum of f[x] for x in S
SumOver(S, f) ==
    IF S = {} THEN 0
    ELSE LET x == CHOOSE y \in S : TRUE IN f[x] + SumOver(S \ {x}, f)

\* the sessions whose run is committed
Committed == {s \in DOMAIN stats_saved : stats_saved[s]}

\* C13: from an empty store, whenever k sessions have committed, whatever the
\* interleaving of the load, modify and save steps of their results
\* requests, the file's total_runs is k and its total_correct is the sum of
\* their correct counts.
C13_NoLostCommits ==
    /\ TotalRuns(store) = Cardinality(Committed)
    /\ load_stats(store)["total_correct"]
          = SumOver(Committed, [s \in Committed |-> CorrectCount(answers[s])])

-----------------------------------------------------------------------------
(* Properties of the persisted record *)

TotalCorrect(file) == load_stats(file)["total_correct"]

Correct(file, q) == load_stats(file)["per_question"][q].correct

\* C14: from an empty store, after any sequence of requests the persisted
\* record has total_correct <= total_runs * N and, for every question id,
\* correct <= attempts.
C14_RecordBounds ==
    /\ TotalCorrect(store) <= TotalRuns(store) * TOTAL_QUESTIONS
    /\ \A q \in QuestionIds : Correct(store, q) <= Attempts(store, q)

\* two runs are committed, one question was answered right once and wrong
\* once, another right both times
C14_Witness ==
    /\ TotalRuns(store) = 2
    /\ \E q \in QuestionIds : Correct(store, q) = 1 /\ Attempts(store, q) = 2
    /\ \E q \in QuestionIds : Correct(store, q) = 2 /\ Attempts(store, q) = 2

\* the results request of session s committed its run
CommitStep(s) == ResultsStep(s) /\ store' # store

\* C19: from an empty store with results requests one at a time, every
\* question's attempts equals total_runs and the correct counts add up to
\* total_correct; one commit adds 1 to total_runs and to every attempts,
\* correct_count to total_correct, and 1 to correct of exactly the questions
\* answered right.
C19_CommitDeltas ==
    /\ [](/\ \A q \in QuestionIds : Attempts(store, q) = TotalRuns(store)
          /\ SumOver(QuestionIds, [q \in QuestionIds |-> Correct(store, q)])
                = TotalCorrect(store))
    /\ [][\A s \in Sessions :
            CommitStep(s) =>
                /\ TotalRuns(store') = TotalRuns(store) + 1
                /\ TotalCorrect(store') = TotalCorrect(store) + CorrectCount(answers[s])
                /\ \A q \in QuestionIds :
                      /\ Attempts(store', q) = Attempts(store, q) + 1
                      /\ Correct(store', q) = Correct(store, q)
                            + (IF IsCorrect(answers[s][q],
                                            QUESTIONS[CHOOSE i \in 1..TOTAL_QUESTIONS :
                                                          QUESTIONS[i].id = q].true_value)
                               THEN 1 ELSE 0)]_vars

\* a second commit was just made by a run with a wrong answer
C19_Witness ==
    /\ req.route = "results"
    /\ resp.kind = "results"
    /\ resp.total_runs = 2
    /\ TotalRuns(store) = 2
    /\ resp.correct_count < TOTAL_QUESTIONS
    /\ TotalCorrect(store) < 2 * TOTAL_QUESTIONS

-----------------------------------------------------------------------------
(* Properties of scoring *)

\* the integer a whole-number decimal stands for
IntValue(x) == x.m * Pow10(x.e)

\* the true value of the question with id q
TrueValueOf(q) == QUESTIONS[CHOOSE i \in 1..TOTAL_QUESTIONS : QUESTIONS[i].id = q].true_value

\* lower <= true value <= upper, on the integers the bounds stand for
Contains(interval, q) ==
    /\ IntValue(interval.lower) <= IntValue(TrueValueOf(q))
    /\ IntValue(TrueValueOf(q)) <= IntValue(interval.upper)

\* C15: on the results page a question is correct exactly when
\* lower <= true_value <= upper, bounds included, and correct_count is the
\* number of correct catalog questions.
C15_Scoring ==
    [][\A s \in Sessions :
          (ResultsStep(s) /\ resp'.kind = "results") =>
              /\ \A q \in QuestionIds :
                    resp'.per_question_results[q] <=> Contains(answers[s][q], q)
              /\ resp'.correct_count
                    = Cardinality({q \in QuestionIds : Contains(answers[s][q], q)})]_vars

\* a results page where q1's interval lies above its true value and q2's
\* interval has both bounds equal to its true value
C15_Witness ==
    /\ req.route = "results"
    /\ resp.kind = "results"
    /\ IntValue(answers["s1"]["q1"].lower) > IntValue(TrueValueOf("q1"))
    /\ ~resp.per_question_results["q1"]
    /\ IntValue(answers["s1"]["q2"].lower) = IntValue(TrueValueOf("q2"))
    /\ IntValue(answers["s1"]["q2"].upper) = IntValue(TrueValueOf("q2"))
    /\ resp.per_question_results["q2"]
    /\ resp.correct_count = TOTAL_QUESTIONS - 1

-----------------------------------------------------------------------------
(* Properties of the score and its interpretation *)

Bands == {"severe overconfidence", "overconfidence", "mild overconfidence",
          "underconfidence", "neutral"}

\* the band applies to a score given in tenths of a percent
Applies(band, tenths) ==
    CASE band = "severe overconfidence" -> tenths < 600
      [] band = "overconfidence"        -> 600 <= tenths /\ tenths < 800
      [] band = "mild overconfidence"   -> 800 <= tenths /\ tenths < 950
      [] band = "underconfidence"       -> tenths = 1000
      [] band = "neutral"               -> 950 <= tenths /\ tenths < 1000

\* C16: for every correct_count in 0..N, score_pct is 100 * correct_count / N
\* rounded to one decimal, and the interpretation is the one band whose
\* range holds the score: severe below 60, overconfidence in [60, 80), mild
\* in [80, 95), underconfidence at 100, neutral in [95, 100).
C16_Bands ==
    result # Pending =>
        LET c == value.correct_count
            n == value.total
            t == result.score_pct
            d == t * n - 1000 * c
        IN  /\ 2 * d <= n /\ -2 * d <= n
            /\ Cardinality({b \in Bands : Applies(b, t)}) = 1
            /\ result.interpretation \in Bands
            /\ Applies(result.interpretation, t)

\* 19 of 20 correct is 95.0, the start of the neutral band
C16_Witness ==
    /\ result # Pending
    /\ value = [correct_count |-> 19, total |-> 20]
    /\ result.score_pct = 950
    /\ result.interpretation = "neutral"

-----------------------------------------------------------------------------
(* Properties of rejected and out-of-range requests *)

\* what the session holds once the request at this index has passed start()
AnswersAfterStart(s, index) == IF index = 0 THEN EmptyDict ELSE answers[s]

SavedAfterStart(s, index) == IF index = 0 THEN FALSE ELSE stats_saved[s]

\* C17: a submit whose bounds do not both parse, or whose lower exceeds its
\* upper, is answered with the question page again, carrying an error and
\* the texts as typed, and leaves the answers, the committed flag and the
\* file as they were before it (at index 0: as start() leaves them).
C17_RejectedSubmit ==
    [][\A s \in Sessions :
          (SubmitStep(s) /\ ~ValidBounds(req'.lower, req'.upper)) =>
              /\ resp'.kind = "question"
              /\ resp'.index = req'.index
              /\ resp'.error \in {"format", "range"}
              /\ resp'.error = "range" <=> LowerAboveUpper(req'.lower, req'.upper)
              /\ resp'.lower_value = Strip(req'.lower)
              /\ resp'.upper_value = Strip(req'.upper)
              /\ answers'[s] = AnswersAfterStart(s, req'.index)
              /\ stats_saved'[s] = SavedAfterStart(s, req'.index)
              /\ store' = store]_vars

\* a submit with lower above upper was just rejected at index 1 in a
\* committed session: all answers and the flag are still there
C17_Witness ==
    /\ req.route = "question"
    /\ req.method = "POST"
    /\ req.index = 1
    /\ LowerAboveUpper(req.lower, req.upper)
    /\ resp.kind = "question"
    /\ resp.error = "range"
    /\ HoldsAll("s1")
    /\ stats_saved["s1"]

\* C18: a question request at an index >= N is answered with a redirect to
\* the results path and changes neither answers, committed flag nor file;
\* the results path shows a score only to a session holding N answers and
\* otherwise redirects to the entry point, changing nothing.
C18_OutOfRange ==
    /\ [][\A s \in Sessions :
            (QuestionStep(s) /\ req'.index >= TOTAL_QUESTIONS) =>
                /\ resp' = Redirect("results")
                /\ answers' = answers
                /\ stats_saved' = stats_saved
                /\ store' = store]_vars
    /\ [][\A s \in Sessions :
            ResultsStep(s) =>
                /\ resp'.kind = "results" => HoldsAll(s)
                /\ ~HoldsAll(s) =>
                      /\ resp' = Redirect("index")
                      /\ answers' = answers
                      /\ stats_saved' = stats_saved
                      /\ store' = store]_vars

\* a submit at index N was just redirected to results in a session that
\* holds some but not all answers
C18_Witness ==
    /\ req.route = "question"
    /\ req.method = "POST"
    /\ req.index = TOTAL_QUESTIONS
    /\ resp = Redirect("results")
    /\ answers["s1"] # EmptyDict
    /\ ~HoldsAll("s1")

-----------------------------------------------------------------------------
(* Properties of the session's life cycle *)

\* the request is start(): a question request at index 0
StartStep(s) == QuestionStep(s) /\ req'.index = 0

\* C20: a committed session holds exactly one answer per catalog id; the
\* committed flag goes from true to false only through start(), and the
\* number of answers held never decreases except through start().
C20_SessionLifeCycle ==
    /\ [](\A s \in Sessions : stats_saved[s] => DOMAIN answers[s] = QuestionIds)
    /\ [][\A s \in Sessions :
            /\ (stats_saved[s] /\ ~stats_saved'[s]) => StartStep(s)
            /\ Cardinality(DOMAIN answers'[s]) < Cardinality(DOMAIN answers[s])
                  => StartStep(s)]_vars

\* a committed session has just had an answer overwritten by a later submit
C20_Witness ==
    /\ stats_saved["s1"]
    /\ DOMAIN answers["s1"] = QuestionIds
    /\ req.route = "question"
    /\ req.method = "POST"
    /\ req.index >= 1
    /\ resp.kind = "redirect"


====
